---------------------------- MODULE Spec2Model ----------------------------
(***************************************************************************)
(* command_runner (src/command_runner/__init__.py): one call of            *)
(* command_runner(), with its nested helpers _windows_child_kill,          *)
(* _read_pipe and _poll_process, the child process, one descendant of a    *)
(* shell child, the OS pipe, the handoff queue and the file sinks; and one  *)
(* call of deferred_command() with the detached shell it starts.           *)
(*                                                                         *)
(* Python >= 3.6 is modelled (Popen gets encoding/errors, so the pipe is   *)
(* a text stream and communicate() returns decoded text).  stderr is never *)
(* a PIPE (it is subprocess.STDOUT or a file), so process.stderr is None   *)
(* and communicate() always returns None as its second value.              *)
(*                                                                         *)
(* Time is counted in tenths of a second.  A timed wait of the supervisor  *)
(* is one step that moves the clock to the end of the wait; what happens   *)
(* during the wait happens, in the model, before that step.  The steps of  *)
(* the drain thread take no time: the clock does not move while the drain  *)
(* thread has a step it can take (a runnable thread is scheduled within    *)
(* the shortest wait, 0.1 s).                                              *)
(***************************************************************************)
EXTENDS Integers, Sequences, FiniteSets, TLC

(* ----- bounds of the model ----- *)
MaxNow == 25        \* the clock saturates here (above every threshold)
MaxWrites == 2      \* chunks the child writes at most
MaxQueue == 3       \* items the model lets the queue hold
PipeCap == 1        \* chunks the OS pipe buffer holds
MaxDefer == 3       \* the largest defer_time given to deferred_command

(* ----- constants of the program and of its tests ----- *)
GetWait == 1            \* output_queue.get(timeout=0.1)
GraceSleep == 5         \* sleep(0.5)
FinalSleep == 1         \* sleep(0.1)
FinalGetWait == 100     \* output_queue.get(timeout=10)
QueueBound == 2          \* the two put() of one communicate() (lines 247-248)
TestTimeout == 10       \* timeout=1 of test_timeout
TestDeadline == 20      \* "< 2" seconds of test_timeout
NoTimeout == 0 - 1      \* timeout=None
NoneCode == 0 - 999     \* exit_code not assigned / None
EXIT_KBD == 0 - 252
EXIT_LAUNCH == 0 - 253
EXIT_TIMEOUT == 0 - 254
EXIT_UNKNOWN == 0 - 255
SIGTERM_STATUS == 0 - 15
SIGKILL_STATUS == 0 - 9
NT_KILLED_STATUS == 1

(* text: a sequence of characters; a character is a number *)
CharBase == 100
KbdNoticeChar == 180        \* "KeyboardInterrupted. Partial output\n"
TimeoutChar == 190          \* "Timeout"
TimeoutOfChar == 191        \* " of" of the returned message
ExcTextBase == 170          \* str(exc) of a spawn failure

VARIABLES
    cfg,            \* the arguments of the call and os.name
    pc,             \* position of the calling thread in command_runner
    now,            \* the clock
    begin_time,     \* _poll_process: begin_time
    output,         \* _poll_process / command_runner: output
    exit_code,      \* command_runner: exit_code
    timeout_reached,\* _poll_process: timeout_reached
    pending,        \* the exception that is propagating ("" when none)
    queue,          \* output_queue
    tpc,            \* position inside _read_pipe (drain thread, or the caller when no_threads)
    tread,          \* bytes read so far by stdout.read() inside communicate()
    pipe_output,    \* _read_pipe: pipe_output
    child,          \* the child process: "none", "running", "zombie", "reaped"
    childStatus,    \* the status the child ended with
    selfExit,       \* the child ended by itself, not by a signal
    returncode,     \* Popen.returncode
    desc,           \* a descendant of the child: "none", "alive", "dead"
    pipe,           \* bytes in the OS pipe
    stdoutClosed,   \* process.stdout.close() was done
    emitted,        \* every byte the child wrote, in order
    f_stdout,       \* the stdout file sink: "unused", "open", "closed"
    f_stderr,       \* the stderr file sink
    fileContent,    \* bytes of the stdout file
    liveOut,        \* text echoed to sys.stdout
    kills,          \* termination actions issued, in order
    intr,           \* where a KeyboardInterrupt hit the call ("" when none)
    intrDrained,    \* what the drain had read from the pipe when it hit
    intrOutput,     \* output when it hit
    log_error,      \* an error-level record was logged
    spawnExc,       \* the exception Popen raised ("" when none)
    result,         \* how the call ended
    dcfg,           \* deferred_command: defer_time and os.name
    dpc,            \* position of the caller in deferred_command
    dresult,        \* what deferred_command returned
    shell,          \* the detached shell: "none", "ping", "test", "command", "ended"
    sent,           \* echo requests ping has sent (one a second)
    pingStatus,     \* the exit status of ping (NoneCode while it has not ended)
    executed        \* how many times the command was executed

runnerVars == << cfg, pc, now, begin_time, output, exit_code, timeout_reached, pending,
           queue, tpc, tread, pipe_output, child, childStatus, selfExit, returncode,
           desc, pipe, stdoutClosed, emitted, f_stdout, f_stderr,
           fileContent, liveOut, kills, intr, intrDrained, intrOutput, log_error,
           spawnExc, result >>
deferVars == << dcfg, dpc, dresult, shell, sent, pingStatus, executed >>
vars == << runnerVars, deferVars >>

procVars == << child, childStatus, selfExit, returncode, desc, pipe, emitted >>
readVars == << tpc, tread, pipe_output, queue, stdoutClosed, liveOut >>
intrVars == << intr, intrDrained, intrOutput >>
histVars == << intrVars, spawnExc >>
fileVars == << f_stdout, f_stderr, fileContent >>
pollVars == << begin_time, output, exit_code, timeout_reached >>

(* ----- the inputs of a call ----- *)
TimeoutValues == {NoTimeout, 0, TestTimeout}
StdoutKinds == {"mem", "live", "file"}
StderrKinds == {"merged", "file"}
OsNames == {"posix", "nt"}
ValidExitCodes == { [given |-> FALSE, codes |-> {}],
                    [given |-> TRUE, codes |-> {0}],
                    [given |-> TRUE, codes |-> {0, 1}] }
ExitStatuses == {0, 1}
SpawnErrors == {"FileNotFoundError", "OSError", "Exception"}

Configs == [ no_threads : BOOLEAN, timeout : TimeoutValues, stdout : StdoutKinds,
             stderr : StderrKinds, os : OsNames, valid_exit_codes : ValidExitCodes ]

(* ----- text ----- *)
\* bytes.decode(encoding): one character per byte
Decode(bytes) == [i \in 1..Len(bytes) |-> bytes[i] + CharBase]
\* str.encode(encoding, errors=errors)
Encode(text) == [i \in 1..Len(text) |-> text[i] - CharBase]
\* 'KeyboardInterrupted. Partial output\n{}'.format(exc.output)
KbdMessage(out) == <<KbdNoticeChar>> \o out
\* 'Timeout {} seconds expired ... Original output was: {}' written to the log and the file
TimeoutMessage(out) == <<TimeoutChar>> \o out
\* 'Timeout of {} seconds expired ... Original output was: {}' returned
TimeoutOutput(out) == <<TimeoutChar, TimeoutOfChar>> \o out
\* exc.__str__() of a failure of Popen
ExcText(exc) == CASE exc = "FileNotFoundError" -> <<ExcTextBase>>
                  [] exc = "OSError" -> <<ExcTextBase + 1>>
                  [] OTHER -> <<ExcTextBase + 2>>

Min(a, b) == IF a < b THEN a ELSE b

\* "if timeout": None and 0 are false
TimeoutSet(timeout) == timeout # NoTimeout /\ timeout # 0
\* "if timeout and (datetime.now() - begin_time).total_seconds() > timeout"
TimedOut_NoneNotTested(timeout, begin, t) == timeout # 0 /\ t - begin > timeout
TimedOut(timeout, begin, t) == TimeoutSet(timeout) /\ t - begin > timeout

\* where the clock saturates: above every threshold of a call whose time checks
\* (lines 220, 300) read it; one step past a timeout of 0, which no check reads;
\* at 0 when timeout is None and no threshold exists
ClockCap(timeout) ==
    IF timeout = NoTimeout THEN 0
    ELSE IF TimeoutSet(timeout) THEN MaxNow ELSE timeout + 1
\* the clock after a wait of d
After(d) == Min(now + d, ClockCap(cfg.timeout))

NoResult == [kind |-> "none", exit_code |-> NoneCode, output |-> <<>>]

\* deferred_command is not called
DeferOff ==
    /\ dcfg = [os |-> "posix", defer_time |-> 0]
    /\ dpc = "off"
    /\ dresult = "unset"
    /\ shell = "none"
    /\ sent = 0
    /\ pingStatus = NoneCode
    /\ executed = 0

\* the locals of command_runner before its first statement
RunnerFresh ==
    /\ now = 0
    /\ begin_time = 0
    /\ output = <<>>
    /\ exit_code = NoneCode
    /\ timeout_reached = FALSE
    /\ pending = ""
    /\ queue = <<>>
    /\ tpc = "idle"
    /\ tread = <<>>
    /\ pipe_output = [isNone |-> TRUE, text |-> <<>>]
    /\ child = "none"
    /\ childStatus = NoneCode
    /\ selfExit = FALSE
    /\ returncode = NoneCode
    /\ desc = "none"
    /\ pipe = <<>>
    /\ stdoutClosed = FALSE
    /\ emitted = <<>>
    /\ f_stdout = "unused"
    /\ f_stderr = "unused"
    /\ fileContent = <<>>
    /\ liveOut = <<>>
    /\ kills = <<>>
    /\ intr = ""
    /\ intrDrained = <<>>
    /\ intrOutput = <<>>
    /\ log_error = FALSE
    /\ spawnExc = ""
    /\ result = NoResult

Init ==
    /\ cfg \in Configs
    /\ pc = "open_stdout"
    /\ RunnerFresh
    /\ DeferOff


(* ----- the process handle (subprocess.Popen) ----- *)
HasPipe == cfg.stdout # "file"          \* process.stdout is a pipe, not None
ProcState == [child |-> child, childStatus |-> childStatus,
              returncode |-> returncode, desc |-> desc]

\* process.poll(): collect the status of a child that has ended
PPoll(p) == IF p.returncode = NoneCode /\ p.child = "zombie"
            THEN [p EXCEPT !.child = "reaped", !.returncode = p.childStatus]
            ELSE p
\* Popen.send_signal(): poll first, signal only a child not yet collected
PSignal(p, status, dies) ==
    LET q == PPoll(p)
    IN IF q.returncode = NoneCode /\ q.child = "running" /\ dies
       THEN [q EXCEPT !.child = "zombie", !.childStatus = status]
       ELSE q
\* taskkill /F /T /PID pid: ends the child and its descendants
PTaskkill(p) ==
    LET q == IF p.child = "running"
             THEN [p EXCEPT !.child = "zombie", !.childStatus = NT_KILLED_STATUS]
             ELSE p
    IN [q EXCEPT !.desc = IF p.desc = "alive" THEN "dead" ELSE p.desc]
\* process.kill(): SIGKILL on posix, TerminateProcess on nt
PKill(p) == PSignal(p, IF cfg.os = "nt" THEN NT_KILLED_STATUS ELSE SIGKILL_STATUS, TRUE)
\* process.terminate(): SIGTERM on posix (the child may survive it), TerminateProcess on nt
PTerminate(p, dies) ==
    IF cfg.os = "nt" THEN PSignal(p, NT_KILLED_STATUS, TRUE)
    ELSE PSignal(p, SIGTERM_STATUS, dies)

SetProc(p) ==
    /\ child' = p.child
    /\ childStatus' = p.childStatus
    /\ returncode' = p.returncode
    /\ desc' = p.desc

\* a termination action the child cannot handle or refuse: taskkill /F, kill(),
\* and terminate() on nt ("Under windows, terminate() and kill() are equivalent")
Forceful(call, os) == call \in {"taskkill", "kill"} \/ (call = "terminate" /\ os = "nt")

\* lines 302-304: tree kill on nt, then process.terminate()
TerminateCalls == IF cfg.os = "nt" THEN <<"taskkill", "terminate">> ELSE <<"terminate">>
\* lines 375-377: tree kill on nt, then process.kill()
KillCalls == IF cfg.os = "nt" THEN <<"taskkill", "kill">> ELSE <<"kill">>

\* the write end of the pipe is closed in every process that had it
PipeEOF == pipe = <<>> /\ child # "running" /\ desc # "alive"

(* ----- command_runner: the sinks and the spawn ----- *)
Raise(exc) ==
    /\ pending' = exc
    /\ result' = [kind |-> "raised", exit_code |-> NoneCode, output |-> <<>>]
    /\ pc' = "done"

\* lines 434-442: the sinks are closed, then the call returns (exit_code, output),
\* or the exception exc goes on to the caller
EndCall(exc, code, out) ==
    /\ f_stdout' = IF f_stdout = "open" THEN "closed" ELSE f_stdout
    /\ f_stderr' = IF f_stderr = "open" THEN "closed" ELSE f_stderr
    /\ pending' = exc
    /\ exit_code' = code
    /\ output' = out
    /\ result' = IF exc = ""
                 THEN [kind |-> "returned", exit_code |-> code, output |-> out]
                 ELSE [kind |-> "raised", exit_code |-> NoneCode, output |-> <<>>]
    /\ pc' = "done"

\* lines 164-177
OpenStdout ==
    /\ pc = "open_stdout"
    /\ IF cfg.stdout = "file"
       THEN \E ok \in BOOLEAN :
              IF ok
              THEN /\ f_stdout' = "open"
                   /\ fileContent' = <<>>
                   /\ pc' = "open_stderr"
                   /\ UNCHANGED << pending, result >>
              ELSE /\ Raise("OSError")
                   /\ UNCHANGED << f_stdout, fileContent >>
       ELSE /\ pc' = "open_stderr"
            /\ UNCHANGED << f_stdout, fileContent, pending, result >>
    /\ UNCHANGED << deferVars, cfg, now, pollVars, readVars, procVars, f_stderr, kills,
                    histVars, log_error >>

\* lines 180-185
OpenStderr ==
    /\ pc = "open_stderr"
    /\ IF cfg.stderr = "file"
       THEN \E ok \in BOOLEAN :
              IF ok
              THEN /\ f_stderr' = "open"
                   /\ pc' = "spawn"
                   /\ UNCHANGED << pending, result >>
              ELSE /\ Raise("OSError")
                   /\ UNCHANGED f_stderr
       ELSE /\ pc' = "spawn"
            /\ UNCHANGED << f_stderr, pending, result >>
    /\ UNCHANGED << deferVars, cfg, now, pollVars, readVars, procVars, f_stdout, fileContent,
                    kills, histVars, log_error >>

\* lines 404-411 and 427-433: the sentinel of a failed Popen
SpawnFailCode_NoOSError(exc) ==
    IF exc = "FileNotFoundError" THEN EXIT_LAUNCH ELSE EXIT_UNKNOWN
SpawnFailCode_AlwaysLaunch(exc) == EXIT_LAUNCH
SpawnFailCode(exc) ==
    IF exc \in {"FileNotFoundError", "OSError"} THEN EXIT_LAUNCH ELSE EXIT_UNKNOWN

\* lines 346-367: subprocess.Popen succeeds
Spawn ==
    /\ pc = "spawn"
    /\ \E d \in {"none", "alive"} :
         /\ child' = "running"
         /\ desc' = d
    /\ pc' = "poll_begin"
    /\ UNCHANGED << deferVars, cfg, now, pollVars, pending, readVars, childStatus, selfExit,
                    returncode, pipe, emitted, fileVars, kills, histVars,
                    log_error, result >>

\* lines 346-367 raising, handled at 404-411 or 427-433
SpawnFail ==
    /\ pc = "spawn"
    /\ \E exc \in SpawnErrors :
         /\ spawnExc' = exc
         /\ EndCall("", SpawnFailCode(exc), ExcText(exc))
    /\ log_error' = TRUE
    /\ UNCHANGED << deferVars, cfg, now, begin_time, timeout_reached, readVars, procVars,
                    fileContent, kills, intrVars >>

(* ----- the child, its descendant and the clock ----- *)
\* the child writes its next chunk to its stdout: the pipe or the file
ChildWrite ==
    /\ pc # "done"
    /\ child = "running"
    /\ Len(emitted) < MaxWrites
    /\ LET b == Len(emitted) + 1
       IN /\ emitted' = Append(emitted, b)
          /\ IF HasPipe
             THEN /\ Len(pipe) < PipeCap
                  /\ pipe' = Append(pipe, b)
                  /\ UNCHANGED fileContent
             ELSE /\ fileContent' = Append(fileContent, b)
                  /\ UNCHANGED pipe
    /\ UNCHANGED << deferVars, cfg, pc, now, pollVars, pending, readVars, child, childStatus,
                    selfExit, returncode, desc, f_stdout, f_stderr, kills,
                    histVars, log_error, result >>

\* the child exits by itself
ChildExit ==
    /\ pc # "done"
    /\ child = "running"
    /\ \E s \in ExitStatuses : childStatus' = s
    /\ child' = "zombie"
    /\ selfExit' = TRUE
    /\ UNCHANGED << deferVars, cfg, pc, now, pollVars, pending, readVars, returncode, desc, pipe, emitted, fileVars, kills, histVars, log_error,
                    result >>

\* the descendant outlives the child and ends later
DescExit ==
    /\ pc # "done"
    /\ desc = "alive"
    /\ child # "running"
    /\ desc' = "dead"
    /\ UNCHANGED << deferVars, cfg, pc, now, pollVars, pending, readVars, child, childStatus,
                    selfExit, returncode, pipe, emitted, fileVars, kills,
                    histVars, log_error, result >>

(* ----- _read_pipe: the drain thread, or the caller itself when no_threads ----- *)
\* where the caller goes on after "output += _read_pipe(...)" (lines 291-296, 320-325)
CallerResume == IF pc = "loop_read" THEN "timeout_check" ELSE "close_pipes"

\* _read_pipe ends with None (break at 221, exception caught at 254) or by raising
\* TypeError (line 250); the caller swallows the TypeError of "output += ..."
ReadPipeEnds ==
    IF cfg.no_threads
    THEN tpc' = "idle" /\ pc' = CallerResume
    ELSE tpc' = "done" /\ pc' = pc

\* a step of _read_pipe is enabled
ReadPipeRunnable ==
    \/ tpc = "check"
    \/ tpc = "read" /\ (pipe # <<>> \/ PipeEOF)
    \/ tpc = "wait" /\ child # "running"
    \/ tpc \in {"deliver", "put_err"} /\ (cfg.no_threads \/ Len(queue) < MaxQueue)

\* the clock may move: the drain thread is blocked, ended or not started
TimePasses == cfg.no_threads \/ ~ReadPipeRunnable

\* lines 219-224: the time check, then communicate() starts: stdout.read() when
\* there is a pipe (ValueError when it is closed), else wait()
ReadPipeCheck ==
    /\ pc # "done"
    /\ tpc = "check"
    /\ IF TimedOut(cfg.timeout, begin_time, now) \/ (HasPipe /\ stdoutClosed)
       THEN /\ ReadPipeEnds
            /\ UNCHANGED tread
       ELSE /\ tpc' = IF HasPipe THEN "read" ELSE "wait"
            /\ tread' = <<>>
            /\ pc' = pc
    /\ UNCHANGED << deferVars, cfg, now, pollVars, pending, pipe_output, queue, stdoutClosed,
                    liveOut, procVars, fileVars, kills, histVars, log_error, result >>

\* communicate(): stdout.read() takes what the pipe holds until end of file,
\* then stdout.close()
ReadPipeRead ==
    /\ pc # "done"
    /\ tpc = "read"
    /\ IF pipe # <<>>
       THEN /\ tread' = tread \o pipe
            /\ pipe' = <<>>
            /\ tpc' = tpc
            /\ UNCHANGED stdoutClosed
       ELSE /\ PipeEOF
            /\ stdoutClosed' = TRUE
            /\ tpc' = "wait"
            /\ UNCHANGED << tread, pipe >>
    /\ UNCHANGED << deferVars, cfg, pc, now, pollVars, pending, pipe_output, queue,
                    liveOut, child, childStatus, selfExit, returncode, desc,
                    emitted, fileVars, kills, histVars, log_error, result >>

\* communicate(): wait() returns once the child has ended and collects its status;
\* lines 226-238: pipe_output is the text of the pipe, or None without a pipe
ReadPipeWait ==
    /\ pc # "done"
    /\ tpc = "wait"
    /\ child # "running"
    /\ SetProc(PPoll(ProcState))
    /\ pipe_output' = IF HasPipe THEN [isNone |-> FALSE, text |-> Decode(tread)]
                      ELSE [isNone |-> TRUE, text |-> <<>>]
    /\ tpc' = "deliver"
    /\ UNCHANGED << deferVars, cfg, pc, now, pollVars, pending, tread, queue, stdoutClosed,
                    liveOut, selfExit, pipe, emitted, fileVars, kills,
                    histVars, log_error, result >>

\* lines 239-250: echo, then put(pipe_output), or "return pipe_output + None"
ReadPipeDeliver ==
    /\ pc # "done"
    /\ tpc = "deliver"
    /\ liveOut' = IF cfg.stdout = "live" /\ ~pipe_output.isNone
                  THEN liveOut \o pipe_output.text ELSE liveOut
    /\ IF cfg.no_threads
       THEN /\ ReadPipeEnds
            /\ UNCHANGED queue
       ELSE /\ Len(queue) < MaxQueue
            /\ queue' = Append(queue, pipe_output)
            /\ tpc' = "put_err"
            /\ pc' = pc
    /\ UNCHANGED << deferVars, cfg, now, pollVars, pending, tread, pipe_output, stdoutClosed,
                    procVars, fileVars, kills, histVars, log_error, result >>

\* line 248: put(pipe_error_output), which is None, and the loop goes on
ReadPipePutErr ==
    /\ pc # "done"
    /\ tpc = "put_err"
    /\ Len(queue) < MaxQueue
    /\ queue' = Append(queue, [isNone |-> TRUE, text |-> <<>>])
    /\ tpc' = "check"
    /\ UNCHANGED << deferVars, cfg, pc, now, pollVars, pending, tread, pipe_output, stdoutClosed,
                    liveOut, procVars, fileVars, kills, histVars, log_error, result >>

(* ----- _poll_process ----- *)
\* lines 271-284
PollBegin ==
    /\ pc = "poll_begin"
    /\ output' = <<>>
    /\ begin_time' = now
    /\ timeout_reached' = FALSE
    /\ tpc' = IF cfg.no_threads THEN "idle" ELSE "check"
    /\ pc' = "loop_test"
    /\ UNCHANGED << deferVars, cfg, now, exit_code, pending, tread, pipe_output, queue,
                    stdoutClosed, liveOut, procVars, fileVars, kills, histVars,
                    log_error, result >>

\* line 286: while process.poll() is None
LoopTest ==
    /\ pc = "loop_test"
    /\ LET p == PPoll(ProcState)
       IN /\ SetProc(p)
          /\ IF p.returncode = NoneCode
             THEN IF cfg.no_threads
                  THEN pc' = "loop_read" /\ tpc' = "check"
                  ELSE pc' = "loop_get" /\ tpc' = tpc
             ELSE pc' = "after_loop" /\ tpc' = tpc
    /\ UNCHANGED << deferVars, cfg, now, pollVars, pending, tread, pipe_output, queue,
                    stdoutClosed, liveOut, selfExit, pipe, emitted, fileVars,
                    kills, histVars, log_error, result >>

\* "output += item": a None item raises TypeError, which is swallowed
Accumulate_NoneResets(out, item) == IF item.isNone THEN <<>> ELSE out \o item.text
Accumulate(out, item) == IF item.isNone THEN out ELSE out \o item.text

\* lines 289, 292-296: output += output_queue.get(timeout=0.1)
LoopGet ==
    /\ pc = "loop_get"
    /\ IF queue # <<>>
       THEN /\ output' = Accumulate(output, Head(queue))
            /\ queue' = Tail(queue)
            /\ now' = now
       ELSE /\ TimePasses
            /\ now' = After(GetWait)
            /\ UNCHANGED << output, queue >>
    /\ pc' = "timeout_check"
    /\ UNCHANGED << deferVars, cfg, begin_time, exit_code, timeout_reached, pending, tpc, tread,
                    pipe_output, stdoutClosed, liveOut, procVars, fileVars, kills,
                    histVars, log_error, result >>

\* line 300
TimeoutCheck ==
    /\ pc = "timeout_check"
    /\ pc' = IF TimedOut(cfg.timeout, begin_time, now) THEN "terminate" ELSE "loop_test"
    /\ UNCHANGED << deferVars, cfg, now, pollVars, pending, readVars, procVars, fileVars, kills,
                    histVars, log_error, result >>

\* lines 302-304
Terminate ==
    /\ pc = "terminate"
    /\ \E dies \in BOOLEAN :
         SetProc(PTerminate(IF cfg.os = "nt" THEN PTaskkill(ProcState) ELSE ProcState, dies))
    /\ kills' = kills \o TerminateCalls
    /\ pc' = "grace_sleep"
    /\ UNCHANGED << deferVars, cfg, now, pollVars, pending, readVars, selfExit, pipe,
                    emitted, fileVars, histVars, log_error, result >>

\* line 307
GraceWait ==
    /\ pc = "grace_sleep"
    /\ TimePasses
    /\ now' = After(GraceSleep)
    /\ pc' = "grace_poll"
    /\ UNCHANGED << deferVars, cfg, pollVars, pending, readVars, procVars, fileVars, kills,
                    histVars, log_error, result >>

\* lines 308-310
GracePoll ==
    /\ pc = "grace_poll"
    /\ LET p == PPoll(ProcState)
       IN IF p.returncode = NoneCode
          THEN /\ SetProc(PKill(p))
               /\ kills' = Append(kills, "kill")
          ELSE /\ SetProc(p)
               /\ UNCHANGED kills
    /\ timeout_reached' = TRUE
    /\ pc' = "loop_test"
    /\ UNCHANGED << deferVars, cfg, now, begin_time, output, exit_code, pending, readVars,
                    selfExit, pipe, emitted, fileVars, histVars, log_error,
                    result >>

\* line 312: exit_code = process.poll()
PollExitCode_Sentinel(p) == IF p.returncode = 0 THEN 0 ELSE EXIT_UNKNOWN
PollExitCode(p) == p.returncode

\* lines 312-313
AfterLoop ==
    /\ pc = "after_loop"
    /\ TimePasses
    /\ LET p == PPoll(ProcState)
       IN /\ SetProc(p)
          /\ exit_code' = PollExitCode(p)
    /\ now' = After(FinalSleep)
    /\ IF cfg.no_threads
       THEN pc' = "final_read" /\ tpc' = "check"
       ELSE pc' = "final_get" /\ tpc' = tpc
    /\ UNCHANGED << deferVars, cfg, begin_time, output, timeout_reached, pending, tread,
                    pipe_output, queue, stdoutClosed, liveOut, selfExit, pipe,
                    emitted, fileVars, kills, histVars, log_error, result >>

\* lines 318, 321-325: output += output_queue.get(timeout=10)
FinalGet ==
    /\ pc = "final_get"
    /\ IF queue # <<>>
       THEN /\ output' = Accumulate(output, Head(queue))
            /\ queue' = Tail(queue)
            /\ now' = now
       ELSE /\ TimePasses
            /\ now' = After(FinalGetWait)
            /\ UNCHANGED << output, queue >>
    /\ pc' = "close_pipes"
    /\ UNCHANGED << deferVars, cfg, begin_time, exit_code, timeout_reached, pending, tpc, tread,
                    pipe_output, stdoutClosed, liveOut, procVars, fileVars, kills,
                    histVars, log_error, result >>

\* process.stdout.close() waits for a read() of the drain thread that is under way
CloseBlocked == HasPipe /\ ~cfg.no_threads /\ tpc = "read"

\* lines 328-336: close the pipes, then raise TimeoutExpired or return
ClosePipes ==
    /\ pc = "close_pipes"
    /\ ~CloseBlocked
    /\ stdoutClosed' = (stdoutClosed \/ HasPipe)
    /\ IF timeout_reached
       THEN /\ pc' = "timeout_handler"
            /\ UNCHANGED << exit_code, output, pending, fileVars, result >>
       ELSE /\ EndCall("", exit_code, output)
            /\ UNCHANGED fileContent
    /\ UNCHANGED << deferVars, cfg, now, begin_time, timeout_reached, tpc, tread, pipe_output,
                    queue, liveOut, procVars, kills, histVars, log_error >>

\* time passes while the caller is blocked in a call that has no timeout
BlockedTick ==
    /\ now < ClockCap(cfg.timeout)
    /\ ~ReadPipeRunnable
    /\ \/ pc \in {"loop_read", "final_read"}
       \/ pc = "close_pipes" /\ CloseBlocked
    /\ now' = After(1)
    /\ UNCHANGED << deferVars, cfg, pc, pollVars, pending, readVars, procVars, fileVars, kills,
                    histVars, log_error, result >>

(* ----- command_runner: the handlers and the end of the call ----- *)
\* line 418: _stdout.write(message.encode(encoding, errors=errors))
WriteTimeoutMessage_Skipped(content, out) == content
WriteTimeoutMessage(content, out) == content \o Encode(TimeoutMessage(out))

\* lines 412-424: except TimeoutExpired; the write to the file sink may fail
TimeoutHandler ==
    /\ pc = "timeout_handler"
    /\ log_error' = TRUE
    /\ IF f_stdout = "open"
       THEN \E ok \in BOOLEAN :
              IF ok
              THEN /\ fileContent' = WriteTimeoutMessage(fileContent, output)
                   /\ EndCall("", EXIT_TIMEOUT, TimeoutOutput(output))
              ELSE /\ EndCall("OSError", exit_code, output)
                   /\ UNCHANGED fileContent
       ELSE /\ EndCall("", EXIT_TIMEOUT, TimeoutOutput(output))
            /\ UNCHANGED fileContent
    /\ UNCHANGED << deferVars, cfg, now, begin_time, timeout_reached, readVars, procVars, kills,
                    histVars >>

(* ----- KeyboardInterrupt in the calling thread ----- *)
\* the statements of _poll_process inside "try ... except KeyboardInterrupt" (287-298)
GuardedPcs == {"loop_get", "loop_read"}
\* the other statements of _poll_process (286, 300-336)
UnguardedPcs == {"loop_test", "timeout_check", "terminate", "grace_sleep", "grace_poll",
                 "after_loop", "final_get", "final_read", "close_pipes"}
\* the waits of the poll loop: the queue wait or the read, and the grace sleep
LoopWaitPcs == {"loop_get", "loop_read", "grace_sleep"}

NoteInterrupt ==
    /\ intr' = pc
    /\ intrDrained' = SubSeq(emitted, 1, Len(emitted) - Len(pipe))
    /\ intrOutput' = output

\* lines 297-298, then 371-379: KbdInterruptGetOutput, exit code -252, kill
InterruptCaught ==
    /\ intr = ""
    /\ pc \in GuardedPcs
    /\ NoteInterrupt
    /\ EndCall("", EXIT_KBD, KbdMessage(output))
    /\ SetProc(PKill(IF cfg.os = "nt" THEN PTaskkill(ProcState) ELSE ProcState))
    /\ kills' = kills \o KillCalls
    /\ tpc' = IF cfg.no_threads THEN "idle" ELSE tpc
    /\ UNCHANGED << deferVars, cfg, now, begin_time, timeout_reached, tread, pipe_output, queue,
                    stdoutClosed, liveOut, selfExit, pipe, emitted, fileContent,
                    log_error, spawnExc >>

\* a KeyboardInterrupt elsewhere in _poll_process: no handler of command_runner takes it
InterruptEscapes ==
    /\ intr = ""
    /\ pc \in UnguardedPcs
    /\ NoteInterrupt
    /\ EndCall("KeyboardInterrupt", exit_code, output)
    /\ tpc' = IF cfg.no_threads THEN "idle" ELSE tpc
    /\ UNCHANGED << deferVars, cfg, now, begin_time, timeout_reached, tread, pipe_output, queue,
                    stdoutClosed, liveOut, procVars, fileContent, kills, log_error,
                    spawnExc >>

Next ==
    \/ OpenStdout
    \/ OpenStderr
    \/ Spawn
    \/ SpawnFail
    \/ ChildWrite
    \/ ChildExit
    \/ DescExit
    \/ ReadPipeCheck
    \/ ReadPipeRead
    \/ ReadPipeWait
    \/ ReadPipeDeliver
    \/ ReadPipePutErr
    \/ PollBegin
    \/ LoopTest
    \/ LoopGet
    \/ TimeoutCheck
    \/ Terminate
    \/ GraceWait
    \/ GracePoll
    \/ AfterLoop
    \/ FinalGet
    \/ ClosePipes
    \/ BlockedTick
    \/ TimeoutHandler
    \/ InterruptCaught
    \/ InterruptEscapes

Spec == Init /\ [][Next]_vars

TypeOK ==
    /\ cfg \in Configs
    /\ now \in 0..MaxNow
    /\ Len(queue) <= MaxQueue
    /\ Len(emitted) <= MaxWrites
    /\ child \in {"none", "running", "zombie", "reaped"}
    /\ desc \in {"none", "alive", "dead"}
    /\ result.kind \in {"none", "returned", "raised"}

(* ----- progress: the steps of the program are taken, the child is free ----- *)
\* the statements of the calling thread
CallerNext ==
    \/ OpenStdout \/ OpenStderr \/ Spawn \/ SpawnFail \/ PollBegin \/ LoopTest
    \/ LoopGet \/ TimeoutCheck \/ Terminate \/ GraceWait \/ GracePoll \/ AfterLoop
    \/ FinalGet \/ ClosePipes \/ TimeoutHandler
\* the statements of _read_pipe
DrainNext ==
    \/ ReadPipeCheck \/ ReadPipeRead \/ ReadPipeWait \/ ReadPipeDeliver
    \/ ReadPipePutErr

\* a thread that can take a step takes one, and time goes on; nothing is
\* assumed of the child, of its descendant or of interrupts
FairSpec ==
    /\ Init
    /\ [][Next]_vars
    /\ WF_vars(CallerNext)
    /\ WF_vars(DrainNext)
    /\ WF_vars(BlockedTick)

(* ----- deferred_command and the detached shell it starts ----- *)
DeferConfigs == [os : OsNames, defer_time : 0..MaxDefer]

\* the defaults of command_runner's arguments; command_runner is not called
DefaultConfig == [no_threads |-> FALSE, timeout |-> NoTimeout, stdout |-> "mem",
                  stderr |-> "merged", os |-> "posix",
                  valid_exit_codes |-> [given |-> FALSE, codes |-> {}]]

DeferInit ==
    /\ cfg = DefaultConfig
    /\ pc = "done"
    /\ RunnerFresh
    /\ dcfg \in DeferConfigs
    /\ dpc = "call"
    /\ dresult = "unset"
    /\ shell = "none"
    /\ sent = 0
    /\ pingStatus = NoneCode
    /\ executed = 0

\* lines 453-456: "ping ... > NUL & " on nt, "ping ... > /dev/null && " elsewhere
Connector(os) == IF os = "nt" THEN "&" ELSE "&&"
\* the shell goes on to the command: always after "&", after "&&" only when the
\* command before it ended with status 0
RunsNext(conn, status) == conn = "&" \/ status = 0

\* lines 453-467: the command line is built and Popen starts the shell
DeferPopen ==
    /\ dpc = "call"
    /\ shell' = "ping"
    /\ dpc' = "spawned"
    /\ UNCHANGED << runnerVars, dcfg, dresult, sent, pingStatus, executed >>

\* line 467: the function ends, nothing is waited for and None is returned
DeferReturn ==
    /\ dpc = "spawned"
    /\ dresult' = "None"
    /\ dpc' = "returned"
    /\ UNCHANGED << runnerVars, dcfg, shell, sent, pingStatus, executed >>

\* ping -c/-n defer_time: one echo request a second
PingSend ==
    /\ shell = "ping"
    /\ sent < dcfg.defer_time
    /\ sent' = sent + 1
    /\ UNCHANGED << runnerVars, dcfg, dpc, dresult, shell, pingStatus, executed >>

\* ping cannot start (it is not installed, or the count 0 is refused)
PingFail ==
    /\ shell = "ping"
    /\ sent = 0
    /\ pingStatus' = 2
    /\ shell' = "test"
    /\ UNCHANGED << runnerVars, dcfg, dpc, dresult, sent, executed >>

\* ping ends after its last request: status 0, or 1 when no reply came
PingEnd ==
    /\ shell = "ping"
    /\ dcfg.defer_time >= 1
    /\ sent = dcfg.defer_time
    /\ \E st \in {0, 1} : pingStatus' = st
    /\ shell' = "test"
    /\ UNCHANGED << runnerVars, dcfg, dpc, dresult, sent, executed >>

\* the shell at the connector between the deferrer and the command
ShellConnector ==
    /\ shell = "test"
    /\ shell' = IF RunsNext(Connector(dcfg.os), pingStatus) THEN "command" ELSE "ended"
    /\ UNCHANGED << runnerVars, dcfg, dpc, dresult, sent, pingStatus, executed >>

\* the shell executes the command and ends
CommandRun ==
    /\ shell = "command"
    /\ executed' = executed + 1
    /\ shell' = "ended"
    /\ UNCHANGED << runnerVars, dcfg, dpc, dresult, sent, pingStatus >>

DeferNext ==
    \/ DeferPopen
    \/ DeferReturn
    \/ PingSend
    \/ PingFail
    \/ PingEnd
    \/ ShellConnector
    \/ CommandRun

DeferSpec == DeferInit /\ [][DeferNext]_vars

(* ----- properties ----- *)
Returned == result.kind = "returned"
Range(f) == {f[i] : i \in DOMAIN f}
\* part occurs in text as a contiguous piece
Contains(text, part) ==
    \E i \in 1..(Len(text) + 1) :
        /\ i + Len(part) - 1 <= Len(text)
        /\ SubSeq(text, i, i + Len(part) - 1) = part

\* C1: with the drain thread and output kept in memory, a child that exits by
\* itself with status 0 and is not timed out gives (0, exactly the text it wrote).
C1_ExactOutput ==
    (/\ Returned
     /\ ~cfg.no_threads
     /\ cfg.stdout = "mem"
     /\ selfExit /\ childStatus = 0
     /\ ~timeout_reached
     /\ intr = "")
    => (result.exit_code = 0 /\ result.output = Decode(emitted))

\* C2: with timeout=1 and a child that does not end by itself, the call returns
\* -254 with the timeout notice within 2 seconds of its start.
C2_TimeoutWithinDeadline ==
    (/\ Returned
     /\ cfg.timeout = TestTimeout
     /\ child # "none" /\ ~selfExit
     /\ intr = "")
    => (/\ result.exit_code = EXIT_TIMEOUT
        /\ TimeoutChar \in Range(result.output)
        /\ now - begin_time <= TestDeadline)

\* C3: when the call returns -254 for a child that did not end by itself,
\* neither the child nor its descendant is still running.
C3_TreeTerminated ==
    (Returned /\ result.exit_code = EXIT_TIMEOUT /\ ~selfExit)
    => (child # "running" /\ desc # "alive")

\* C4: when Popen raises FileNotFoundError or OSError the call returns
\* (-253, text of the error), no drain thread was started and no termination
\* or kill was issued.
C4_LaunchFailure ==
    spawnExc \in {"FileNotFoundError", "OSError"}
    => (/\ result = [kind |-> "returned", exit_code |-> EXIT_LAUNCH,
                     output |-> ExcText(spawnExc)]
        /\ tpc = "idle"
        /\ kills = <<>>)
C4_Witness == spawnExc = "OSError" /\ Returned /\ result.exit_code = EXIT_LAUNCH

\* C5: a KeyboardInterrupt that hits a wait of the poll loop ends the call with -252, the
\* notice followed by the output accumulated so far, and a tree-aware force
\* kill issued.
C5_InterruptResult ==
    (pc = "done" /\ intr \in LoopWaitPcs)
    => (/\ Returned
        /\ result.exit_code = EXIT_KBD
        /\ result.output = KbdMessage(intrOutput)
        /\ "taskkill" \in Range(kills))

\* C6: the output returned with -252 contains, in order, all the text of the
\* child that the drain had already read from the pipe when the interrupt hit.
C6_PartialOutputKept ==
    (Returned /\ result.exit_code = EXIT_KBD /\ HasPipe)
    => Contains(result.output, Decode(intrDrained))

\* C7: the call never ends by raising.
C7_NeverRaises == result.kind # "raised"

\* C8: when the call has ended, no file sink it opened is still open.
C8_SinksClosed == pc = "done" => (f_stdout # "open" /\ f_stderr # "open")

\* C9: a child that exits by itself with a non-zero status, without timeout or
\* interrupt, has exactly that status returned, whatever valid_exit_codes is.
C9_RealExitCode ==
    (/\ Returned
     /\ selfExit /\ childStatus # 0
     /\ ~timeout_reached
     /\ intr = "")
    => result.exit_code = childStatus
C9_Witness ==
    /\ Returned /\ selfExit /\ childStatus = 1 /\ ~timeout_reached /\ intr = ""
    /\ result.exit_code = 1
    /\ cfg.valid_exit_codes.given /\ 1 \notin cfg.valid_exit_codes.codes

\* C10: when stdout is a file and the call returns -254, the child has ended, the
\* file is closed and holds what the child wrote followed by the timeout message.
C10_TimeoutMessageInFile ==
    (Returned /\ result.exit_code = EXIT_TIMEOUT /\ cfg.stdout = "file")
    => (/\ child # "running"
        /\ f_stdout = "closed"
        /\ fileContent = emitted \o Encode(TimeoutMessage(<<>>)))
C10_Witness ==
    /\ Returned /\ result.exit_code = EXIT_TIMEOUT /\ cfg.stdout = "file"
    /\ Len(emitted) = MaxWrites
    /\ f_stdout = "closed"

\* C11: with timeout=None and no interrupt, no termination request and no kill is
\* ever issued, the timeout is never marked as reached and -254 is never the
\* result; when the call returns for a spawned child, that child has ended by
\* itself and its status is the exit code returned.
C11_NoTimeoutNoKill ==
    (cfg.timeout = NoTimeout /\ intr = "")
    => (/\ kills = <<>>
        /\ ~timeout_reached
        /\ pc # "terminate"
        /\ result.exit_code # EXIT_TIMEOUT
        /\ (Returned /\ child # "none")
           => (selfExit /\ child = "reaped" /\ result.exit_code = childStatus))
C11_Witness ==
    /\ Returned /\ cfg.timeout = NoTimeout /\ intr = ""
    /\ selfExit /\ childStatus = 1 /\ result.exit_code = 1
    /\ Len(emitted) = MaxWrites /\ desc = "dead"

\* C12: when the call returns after it started the drain thread, that thread has
\* ended: it is not about to run, not blocked in a read and not looping.
C12_DrainThreadEnded ==
    (Returned /\ ~cfg.no_threads /\ child # "none") => tpc = "done"

\* C13: when the call returns after a child was spawned, the child has ended and
\* its exit status has been collected.
C13_ChildReaped ==
    (Returned /\ child # "none") => (child = "reaped" /\ returncode = childStatus)

\* the result of a call for a child that ended by itself: its status and the
\* decoded text of everything it wrote
ChildResult == [kind |-> "returned", exit_code |-> childStatus, output |-> Decode(emitted)]

\* C14: with no_threads=True, output kept in memory and a child without
\* descendants that ends by itself, with no timeout reached and no interrupt,
\* the call returns what it returns with the drain thread: the status of the
\* child and the full decoded text it wrote.
C14_NoThreadsSameResult ==
    (/\ Returned /\ cfg.no_threads
     /\ cfg.stdout = "mem" /\ desc = "none"
     /\ selfExit /\ ~timeout_reached /\ intr = "")
    => result = ChildResult

\* C15: deferred_command returns None without waiting for the shell; the command
\* is not executed while ping has not ended, it is executed at most once, and
\* when the shell has ended the command has been executed.
C15_DeferredExecution ==
    /\ dpc = "spawned" => ENABLED DeferReturn
    /\ dpc = "returned" => dresult = "None"
    /\ executed > 0 => pingStatus # NoneCode
    /\ executed <= 1
    /\ shell = "ended" => executed = 1

Sentinels == {EXIT_KBD, EXIT_LAUNCH, EXIT_TIMEOUT, EXIT_UNKNOWN}

C17_GracefulFirst ==
    (intr = "" /\ ~selfExit /\ kills # <<>>)
    => (/\ ~Forceful(kills[1], cfg.os)
        /\ \A i \in DOMAIN kills :
             kills[i] = "kill" => (i > 1 /\ kills[i - 1] = "terminate"))

\* C18: with the drain thread and a timeout configured, every call eventually
\* ends, whatever the child and its descendant do.
C18_EventuallyReturns ==
    (~cfg.no_threads /\ TimeoutSet(cfg.timeout)) => <>(pc = "done")

\* C19: the queue never holds more chunks than the drain thread puts for one
\* communicate(), whatever the sink and the timeout.
C19_QueueBounded == Len(queue) <= QueueBound

\* a drain attempt of the supervisor ends: "output += ..." at lines 289-296 or
\* 318-325 was executed and no interrupt hit it
DrainAttempt ==
    /\ pc \in {"loop_get", "loop_read", "final_get", "final_read"}
    /\ pc' \in {"timeout_check", "close_pipes"}
\* the chunk the attempt yields: nothing, None or an empty text
EmptyChunk ==
    \/ cfg.no_threads
    \/ queue = <<>>
    \/ Head(queue).isNone
    \/ Head(queue).text = <<>>

\* C20: a drain attempt that yields nothing, None or an empty text leaves output
\* as it was, raises nothing and supervision goes on; any other attempt appends
\* its chunk after the text that output already holds.
C20_EmptyChunkKeepsOutput ==
    [][DrainAttempt =>
         /\ pending' = "" /\ result' = NoResult
         /\ IF EmptyChunk THEN output' = output
            ELSE output' = output \o Head(queue).text]_vars
C20_Witness ==
    /\ ~cfg.no_threads /\ cfg.stdout = "mem"
    /\ pc = "close_pipes"
    /\ Len(output) = MaxWrites /\ output = Decode(emitted)
    /\ queue = <<>> /\ tpc \in {"check", "done"}

\* line 392: "valid_exit_codes if valid_exit_codes is not None else [0]"
ValidCodes(v) == IF v.given THEN v.codes ELSE {0}

\* C21: when the call returns for a child that ended by itself, without timeout
\* or interrupt, an error-level record was logged exactly when the status of
\* the child is outside the valid exit codes.
C21_ErrorLoggedForInvalidCode ==
    (Returned /\ selfExit /\ ~timeout_reached /\ intr = "")
    => (log_error <=> childStatus \notin ValidCodes(cfg.valid_exit_codes))

\* C22: with any timeout other than None, 0 included, the supervisor is never
\* back at the head of the poll loop, uninterrupted, with the elapsed time
\* above the timeout and no termination issued.
C22_EveryTimeoutEnforced ==
    (/\ cfg.timeout # NoTimeout
     /\ pc = "loop_test"
     /\ now - begin_time > cfg.timeout
     /\ intr = "")
    => kills # <<>>

\* the timeout check of the poll loop fires (line 300 is true)
TimeoutCheckFires == pc = "timeout_check" /\ pc' = "terminate"

\* C23: whenever the timeout check fires, the child is still running: a child
\* that has ended by itself during the wait or the read before the check is
\* not taken down the timeout path.
C23_TimeoutOnlyIfRunning == [][TimeoutCheckFires => child = "running"]_vars

=============================================================================
